---- MODULE Spec2Model ----
(***************************************************************************)
(* Verification model of three pieces of the wallet extension:             *)
(*   - SmartTransactionHook (submit / submitBatch and their helpers),      *)
(*   - the GasFeeTokenModal list and its selected item,                    *)
(*   - the ImportSrp "Import wallet" handler as exercised by its tests.    *)
(* Every await of the hook is a step boundary: between two awaits a hook   *)
(* instance runs atomically, and other instances, the approval UI and the  *)
(* status events of the message bus interleave at the awaits.              *)
(***************************************************************************)
EXTENDS Integers, Sequences, FiniteSets, TLC

VARIABLES
    \* SmartTransactionHook
    sharedApprovalFlowId,   \* static #sharedApprovalFlowId
    hooks,                  \* the hook instances: fields, position, calls made
    lastEvent,              \* the smart-transaction event published last
    \* GasFeeTokenModal
    gasFeeTokens,           \* currentConfirmation.gasFeeTokens (token addresses)
    selectedGasFeeToken,    \* currentConfirmation.selectedGasFeeToken
    listItems,              \* the rendered GasFeeTokenListItem elements
    \* ImportSrp
    secretRecoveryPhrase,   \* the phrase held by the form
    imports,                \* the importMnemonicToVault calls and their outcome
    onActionCompleteCalls,  \* the arguments onActionComplete was called with
    clearClipboardCalls     \* how often clearClipboard was called

hookVars == <<sharedApprovalFlowId, hooks, lastEvent>>

modalVars == <<gasFeeTokens, selectedGasFeeToken, listItems>>

srpVars == <<secretRecoveryPhrase, imports, onActionCompleteCalls, clearClipboardCalls>>

vars == <<hookVars, modalVars, srpVars>>

\* ------------------------------------------------------------------------
\* Bounds
\* ------------------------------------------------------------------------
\* Number of hook instances (publish-hook invocations) that may be in flight.
NumCalls == 2

Calls == 1..NumCalls

\* ------------------------------------------------------------------------
\* SmartTransactionHook: values
\* ------------------------------------------------------------------------
\* static #sharedApprovalFlowId = '' / this.#approvalFlowId = ''
NoFlow == 0

\* ApprovalController:startFlow hands out a fresh id for every flow.
FlowIdOf(c) == c

\* submitSignedTransactions hands out a fresh uuid for every submission.
UuidOf(c) == c

\* The flow of an instance that ran before the instances of this model.
EarlierFlow == NumCalls + 1

\* A uuid that belongs to no submission of this model.
ForeignUuid == NumCalls + 1

TransactionTypes ==
    {"undefined", "simpleSend", "swapAndSend", "swapApproval", "bridgeApproval", "bridge"}

NoRequest ==
    [kind |-> "none", isSmartTransaction |-> FALSE, type |-> "undefined",
     legacy |-> FALSE, signedTransactionInHex |-> FALSE, transactions |-> "none",
     extensionReturnTxHashAsap |-> FALSE]

NoResponse == [uuid |-> FALSE, txHash |-> "", txHashes |-> FALSE]

NoResult == [kind |-> "pending", transactionHash |-> "", error |-> ""]

NoHook ==
    [pc |-> "idle", request |-> NoRequest, approvalFlowId |-> NoFlow,
     approvalFlowEnded |-> FALSE, existingFlowId |-> NoFlow,
     response |-> NoResponse, log |-> <<>>, requestPending |-> FALSE,
     statusListener |-> FALSE, waitSubscribed |-> FALSE, waitResult |-> "unset",
     statusPageUpdated |-> FALSE, result |-> NoResult]

NoEvent == [uuid |-> ForeignUuid, status |-> "", minedHash |-> "absent"]

\* selectedGasFeeToken when the confirmation has none.
Undefined == [token |-> -1, upper |-> FALSE]

\* ------------------------------------------------------------------------
\* SmartTransactionHook: inputs
\* ------------------------------------------------------------------------
\* Requests of the single-transaction publish hook.  The fields that decide
\* eligibility are enumerated in full; the fields that only matter after the
\* eligibility test vary on eligible requests.
SubmitRequests ==
    { r \in [kind : {"submit"}, isSmartTransaction : BOOLEAN, type : TransactionTypes,
             legacy : BOOLEAN, signedTransactionInHex : BOOLEAN,
             transactions : {"none", "some"}, extensionReturnTxHashAsap : BOOLEAN] :
        (~r.isSmartTransaction \/ r.legacy
            \/ r.type \in {"swapAndSend", "swapApproval", "bridgeApproval"})
          => (~r.signedTransactionInHex /\ r.transactions = "none"
                /\ ~r.extensionReturnTxHashAsap) }

\* Requests of the batch publish hook.
BatchRequests ==
    { r \in [kind : {"submitBatch"}, isSmartTransaction : BOOLEAN,
             type : {"simpleSend", "bridge"}, legacy : {FALSE},
             signedTransactionInHex : {FALSE}, transactions : {"none", "some"},
             extensionReturnTxHashAsap : BOOLEAN] :
        ~r.isSmartTransaction => (r.transactions = "some" /\ ~r.extensionReturnTxHashAsap) }

\* Responses of submitSignedTransactions: with or without a uuid, a txHash and
\* (for batches) txHashes.
AllResponses == [uuid : BOOLEAN, txHash : {"", "0xtx"}, txHashes : BOOLEAN]

RelayResponses(req) ==
    { r \in AllResponses :
        /\ ~r.uuid => (r.txHash = "" /\ ~r.txHashes)
        /\ r.txHashes => req.kind = "submitBatch" }

\* Smart-transaction events of the message bus.
Events ==
    { e \in [uuid : Calls \cup {ForeignUuid},
             status : {"", "pending", "success", "cancelled"},
             minedHash : {"absent", "", "0xh1", "0xh2"}] :
        /\ e.status \in {"", "pending"} => e.minedHash \in {"absent", "0xh1"}
        /\ e.status = "cancelled" => e.minedHash \in {"absent", ""}
        /\ e.uuid = ForeignUuid => (e.status = "success" /\ e.minedHash = "0xh2") }

\* The inputs of the runs with several instances in flight: every request that
\* is not eligible, and one eligible request of each hook that shows the
\* status page.
ConcurrentSubmitRequests ==
    { r \in SubmitRequests :
        \/ ~r.isSmartTransaction \/ r.legacy
        \/ r.type \in {"swapAndSend", "swapApproval", "bridgeApproval"}
        \/ (r.type = "simpleSend" /\ ~r.signedTransactionInHex
              /\ r.transactions = "none" /\ ~r.extensionReturnTxHashAsap) }

ConcurrentBatchRequests ==
    { r \in BatchRequests :
        r.isSmartTransaction /\ r.type = "simpleSend" /\ r.transactions = "some"
          /\ ~r.extensionReturnTxHashAsap }

ConcurrentResponses == { r \in AllResponses : r.txHash = "" /\ ~r.txHashes }

ConcurrentEvents ==
    { e \in Events :
        /\ e.uuid \in Calls
        /\ \/ e.status = "success" /\ e.minedHash = "0xh1"
           \/ e.status = "cancelled" /\ e.minedHash = "absent" }

\* ------------------------------------------------------------------------
\* SmartTransactionHook: helpers
\* ------------------------------------------------------------------------
Logged(h, op, phase, arg) == \E i \in 1..Len(h.log) : h.log[i] = <<op, phase, arg>>

LoggedOp(h, op, phase) == \E i \in 1..Len(h.log) : h.log[i][1] = op /\ h.log[i][2] = phase

Call(h, op, phase, arg) == [h EXCEPT !.log = Append(@, <<op, phase, arg>>)]

\* constructor: this.#shouldShowStatusPage
ShouldShowStatusPage(req) == req.type # "bridge" \/ req.transactions = "some"

IsUnsupportedTransactionTypeForSmartTransaction(req) ==
    IF req.type # "undefined"
    THEN req.type \in {"swapAndSend", "swapApproval", "bridgeApproval"}
    ELSE FALSE

\* isLegacyTransaction of shared/modules/transaction.utils: the transaction
\* envelope is not an EIP-1559 one.
IsLegacyTransaction(req) == req.legacy

UseRegularNoLegacyCheck(req) ==
    ~req.isSmartTransaction \/ IsUnsupportedTransactionTypeForSmartTransaction(req)

\* submit(): the test that returns useRegularTransactionSubmit at once.
UseRegularTransactionSubmit(req) ==
    \/ ~req.isSmartTransaction
    \/ IsUnsupportedTransactionTypeForSmartTransaction(req)
    \/ IsLegacyTransaction(req)

RegularResult == [kind |-> "regular", transactionHash |-> "undefined", error |-> ""]

HashResult(hash) == [kind |-> "hash", transactionHash |-> hash, error |-> ""]

BatchResult(resp) ==
    [kind |-> "batch", transactionHash |-> IF resp.txHashes THEN "txHashes" ELSE "[]",
     error |-> ""]

Rejected(err) == [kind |-> "rejected", transactionHash |-> "", error |-> err]

OnApproveOrRejectKeepShared(h, shared) ==
    IF ~ShouldShowStatusPage(h.request) \/ h.approvalFlowEnded
    THEN [hook |-> h, shared |-> shared]
    ELSE [hook |-> Call([h EXCEPT !.approvalFlowEnded = TRUE],
                        "endFlow", "call", h.approvalFlowId),
          shared |-> shared]

OnApproveOrRejectNoEndFlow(h, shared) ==
    IF ~ShouldShowStatusPage(h.request) \/ h.approvalFlowEnded
    THEN [hook |-> h, shared |-> shared]
    ELSE [hook |-> [h EXCEPT !.approvalFlowEnded = TRUE],
          shared |-> IF shared = h.approvalFlowId THEN NoFlow ELSE shared]

\* #onApproveOrReject: ends this instance's flow once and clears the shared id
\* when it is this instance's.  An endFlow that throws is swallowed.
OnApproveOrReject(h, shared) ==
    IF ~ShouldShowStatusPage(h.request) \/ h.approvalFlowEnded
    THEN [hook |-> h, shared |-> shared]
    ELSE [hook |-> Call([h EXCEPT !.approvalFlowEnded = TRUE],
                        "endFlow", "call", h.approvalFlowId),
          shared |-> IF shared = h.approvalFlowId THEN NoFlow ELSE shared]

CatchAsFallback(h, shared, err) ==
    LET r == OnApproveOrReject(h, shared)
    IN  [hook |-> [r.hook EXCEPT !.pc = "done", !.result = RegularResult],
         shared |-> r.shared]

\* catch block of submit() and submitBatch(): end the flow, rethrow.
CatchAndRethrow(h, shared, err) ==
    LET r == OnApproveOrReject(h, shared)
    IN  [hook |-> [r.hook EXCEPT !.pc = "done", !.result = Rejected(err)],
         shared |-> r.shared]

\* catch block around getFees in submit(): end the flow, fall back.
CatchGetFees(h, shared) ==
    LET r == OnApproveOrReject(h, shared)
    IN  [hook |-> [r.hook EXCEPT !.pc = "done", !.result = RegularResult],
         shared |-> r.shared]

\* #startApprovalFlow up to its first await.
BeginStartApprovalFlow(h, shared, throws) ==
    IF shared # NoFlow
    THEN \* #endExistingApprovalFlow(shared): endFlow, then await
         LET h1 == Call([h EXCEPT !.existingFlowId = shared], "endFlow", "call", shared)
         IN  IF throws
             THEN [h1 EXCEPT !.pc = "callStartFlow"]
             ELSE [h1 EXCEPT !.pc = "acceptExisting"]
    ELSE LET h1 == Call(h, "startFlow", "call", 0)
         IN  IF throws
             THEN [h1 EXCEPT !.pc = "done", !.result = Rejected("startFlowError")]
             ELSE [h1 EXCEPT !.pc = "awaitStartFlow"]

SignAndSubmitSkipSigning(h, hasFees) ==
    [Call(h, "submitSignedTransactions", "call", 0) EXCEPT !.pc = "awaitRelay"]

\* #signAndSubmitTransactions up to its first await: batch transactions and a
\* pre-signed transaction go straight to the relay, otherwise the fees are
\* applied and the transactions are signed first.
SignAndSubmitTransactions(h, hasFees) ==
    IF h.request.transactions = "some" \/ h.request.signedTransactionInHex \/ ~hasFees
    THEN [Call(h, "submitSignedTransactions", "call", 0) EXCEPT !.pc = "awaitRelay"]
    ELSE [Call(h, "approveTransactionsWithSameNonce", "call", 0) EXCEPT !.pc = "awaitSign"]

\* #processApprovalIfNeeded: #addApprovalRequest (not awaited) and
\* #addListenerToUpdateStatusPage.
ProcessApprovalIfNeeded(h, c) ==
    IF ShouldShowStatusPage(h.request)
    THEN [Call(Call(h, "addRequest", "call", h.approvalFlowId),
               "subscribe", "call", UuidOf(c))
            EXCEPT !.requestPending = TRUE, !.statusListener = TRUE]
    ELSE h

ReturnTxHashAsapIgnoringFlag(req, resp) == req.kind = "submit" /\ resp.txHash # ""

\* submit(): extensionReturnTxHashAsap && submitTransactionResponse?.txHash.
\* submitBatch() has no such branch.
ReturnTxHashAsap(req, resp) ==
    req.kind = "submit" /\ req.extensionReturnTxHashAsap /\ resp.txHash # ""

\* The test both listeners apply to an event before acting on it.
IsDecidingEvent(e, uuid) == e.uuid = uuid /\ e.status # "" /\ e.status # "pending"

\* statusMetadata?.minedHash as a condition.
HasMinedHash(e) == e.minedHash # "absent" /\ e.minedHash # ""

ResolveWaitLastWins(current, e, uuid) ==
    IF IsDecidingEvent(e, uuid)
    THEN IF HasMinedHash(e) THEN e.minedHash ELSE "null"
    ELSE current

\* The subscriber of #waitForTransactionHash: the value its promise holds
\* after event e, given the value it held (a promise resolves once).
ResolveWait(current, e, uuid) ==
    IF IsDecidingEvent(e, uuid) /\ current = "unset"
    THEN IF HasMinedHash(e) THEN e.minedHash ELSE "null"
    ELSE current

\* Both subscribers of an instance applied to event e.
DeliverEvent(h, c, e) ==
    LET h1 == IF h.statusListener /\ IsDecidingEvent(e, UuidOf(c)) /\ ~h.approvalFlowEnded
              THEN [h EXCEPT !.statusPageUpdated = TRUE]
              ELSE h
    IN  IF h.waitSubscribed
        THEN [h1 EXCEPT !.waitResult = ResolveWait(h.waitResult, e, UuidOf(c))]
        ELSE h1

\* ------------------------------------------------------------------------
\* SmartTransactionHook: steps
\* ------------------------------------------------------------------------
SetHook(c, h) == hooks' = [hooks EXCEPT ![c] = h]

\* submitSmartTransactionHook(request): the constructor and submit() up to
\* its first await.
Submit(c, requests) ==
    /\ hooks[c].pc = "idle"
    /\ \E req \in requests, throws \in BOOLEAN :
         LET h == [hooks[c] EXCEPT !.request = req]
         IN  IF UseRegularTransactionSubmit(req)
             THEN /\ ~throws
                  /\ SetHook(c, [h EXCEPT !.pc = "done", !.result = RegularResult])
             ELSE IF ShouldShowStatusPage(req)
             THEN SetHook(c, BeginStartApprovalFlow(h, sharedApprovalFlowId, throws))
             ELSE /\ ~throws
                  /\ SetHook(c, [Call(h, "getFees", "call", 0) EXCEPT !.pc = "awaitGetFees"])
    /\ UNCHANGED <<sharedApprovalFlowId, lastEvent, modalVars, srpVars>>

\* submitBatchSmartTransactionHook(request): the constructor and submitBatch()
\* up to its first await.
SubmitBatch(c, requests) ==
    /\ hooks[c].pc = "idle"
    /\ \E req \in requests, throws \in BOOLEAN :
         LET h == [hooks[c] EXCEPT !.request = req]
         IN  IF ~req.isSmartTransaction
             THEN /\ ~throws
                  /\ SetHook(c, [h EXCEPT !.pc = "done", !.result = RegularResult])
             ELSE IF ShouldShowStatusPage(req)
             THEN SetHook(c, BeginStartApprovalFlow(h, sharedApprovalFlowId, throws))
             ELSE /\ ~throws
                  /\ SetHook(c, SignAndSubmitTransactions(h, FALSE))
    /\ UNCHANGED <<sharedApprovalFlowId, lastEvent, modalVars, srpVars>>

\* #endExistingApprovalFlow after endFlow: acceptRequest, then await.  A throw
\* is caught and logged, and the shared id is left as it is.
AcceptExisting(c) ==
    /\ hooks[c].pc = "acceptExisting"
    /\ \E throws \in BOOLEAN :
         LET h == Call(hooks[c], "acceptRequest", "call", hooks[c].existingFlowId)
         IN  SetHook(c, [h EXCEPT !.pc = IF throws THEN "callStartFlow" ELSE "clearShared"])
    /\ UNCHANGED <<sharedApprovalFlowId, lastEvent, modalVars, srpVars>>

\* #endExistingApprovalFlow after acceptRequest: the shared id is cleared.
ClearShared(c) ==
    /\ hooks[c].pc = "clearShared"
    /\ sharedApprovalFlowId' = NoFlow
    /\ SetHook(c, [hooks[c] EXCEPT !.pc = "callStartFlow"])
    /\ UNCHANGED <<lastEvent, modalVars, srpVars>>

\* #startApprovalFlow after the existing flow was handled: startFlow.
CallStartFlow(c) ==
    /\ hooks[c].pc = "callStartFlow"
    /\ \E throws \in BOOLEAN :
         LET h == Call(hooks[c], "startFlow", "call", 0)
         IN  SetHook(c, IF throws
                        THEN [h EXCEPT !.pc = "done", !.result = Rejected("startFlowError")]
                        ELSE [h EXCEPT !.pc = "awaitStartFlow"])
    /\ UNCHANGED <<sharedApprovalFlowId, lastEvent, modalVars, srpVars>>

\* #startApprovalFlow after startFlow: the id is stored in the instance and in
\* the static property.
StartFlowDone(c) ==
    /\ hooks[c].pc = "awaitStartFlow"
    /\ sharedApprovalFlowId' = FlowIdOf(c)
    /\ SetHook(c, [Call(hooks[c], "startFlow", "ok", FlowIdOf(c))
                     EXCEPT !.approvalFlowId = FlowIdOf(c), !.pc = "afterStartFlow"])
    /\ UNCHANGED <<lastEvent, modalVars, srpVars>>

\* submit() / submitBatch() after `await this.#startApprovalFlow()`.
AfterStartFlow(c) ==
    /\ hooks[c].pc = "afterStartFlow"
    /\ IF hooks[c].request.kind = "submit"
       THEN SetHook(c, [Call(hooks[c], "getFees", "call", 0) EXCEPT !.pc = "awaitGetFees"])
       ELSE SetHook(c, SignAndSubmitTransactions(hooks[c], FALSE))
    /\ UNCHANGED <<sharedApprovalFlowId, lastEvent, modalVars, srpVars>>

\* getFees resolved: #signAndSubmitTransactions({ getFeesResponse }) starts.
GetFeesResolved(c) ==
    /\ hooks[c].pc = "awaitGetFees"
    /\ SetHook(c, SignAndSubmitTransactions(Call(hooks[c], "getFees", "ok", 0), TRUE))
    /\ UNCHANGED <<sharedApprovalFlowId, lastEvent, modalVars, srpVars>>

\* getFees rejected: the first catch block of submit().
GetFeesRejected(c) ==
    /\ hooks[c].pc = "awaitGetFees"
    /\ LET r == CatchGetFees(Call(hooks[c], "getFees", "fail", 0), sharedApprovalFlowId)
       IN  /\ SetHook(c, r.hook)
           /\ sharedApprovalFlowId' = r.shared
    /\ UNCHANGED <<lastEvent, modalVars, srpVars>>

\* approveTransactionsWithSameNonce resolved: the relay is called.
SignResolved(c) ==
    /\ hooks[c].pc = "awaitSign"
    /\ SetHook(c, [Call(Call(hooks[c], "approveTransactionsWithSameNonce", "ok", 0),
                        "submitSignedTransactions", "call", 0)
                     EXCEPT !.pc = "awaitRelay"])
    /\ UNCHANGED <<sharedApprovalFlowId, lastEvent, modalVars, srpVars>>

\* approveTransactionsWithSameNonce rejected: the second catch block.
SignRejected(c) ==
    /\ hooks[c].pc = "awaitSign"
    /\ LET r == CatchAndRethrow(Call(hooks[c], "approveTransactionsWithSameNonce", "fail", 0),
                                sharedApprovalFlowId, "signError")
       IN  /\ SetHook(c, r.hook)
           /\ sharedApprovalFlowId' = r.shared
    /\ UNCHANGED <<lastEvent, modalVars, srpVars>>

\* submitSignedTransactions resolved: the uuid test and
\* #processApprovalIfNeeded(uuid), up to its await.
RelayResolved(c, responses) ==
    /\ hooks[c].pc = "awaitRelay"
    /\ \E resp \in responses \cap RelayResponses(hooks[c].request) :
         LET h == [Call(hooks[c], "submitSignedTransactions", "ok",
                        IF resp.uuid THEN UuidOf(c) ELSE ForeignUuid)
                     EXCEPT !.response = resp]
         IN  IF ~resp.uuid
             THEN LET r == CatchAndRethrow(h, sharedApprovalFlowId, "No smart transaction UUID")
                  IN  /\ SetHook(c, r.hook)
                      /\ sharedApprovalFlowId' = r.shared
             ELSE /\ SetHook(c, [ProcessApprovalIfNeeded(h, c) EXCEPT !.pc = "afterApproval"])
                  /\ UNCHANGED sharedApprovalFlowId
    /\ UNCHANGED <<lastEvent, modalVars, srpVars>>

\* submitSignedTransactions rejected: the second catch block.
RelayRejected(c) ==
    /\ hooks[c].pc = "awaitRelay"
    /\ LET r == CatchAndRethrow(Call(hooks[c], "submitSignedTransactions", "fail", 0),
                                sharedApprovalFlowId, "relayError")
       IN  /\ SetHook(c, r.hook)
           /\ sharedApprovalFlowId' = r.shared
    /\ UNCHANGED <<lastEvent, modalVars, srpVars>>

\* After `await this.#processApprovalIfNeeded(uuid)`: return the relay's
\* txHash at once, or subscribe in #waitForTransactionHash and wait.
AfterApproval(c) ==
    /\ hooks[c].pc = "afterApproval"
    /\ IF ReturnTxHashAsap(hooks[c].request, hooks[c].response)
       THEN SetHook(c, [hooks[c] EXCEPT !.pc = "done",
                                        !.result = HashResult(hooks[c].response.txHash)])
       ELSE SetHook(c, [Call(hooks[c], "subscribe", "call", UuidOf(c))
                          EXCEPT !.pc = "waiting", !.waitSubscribed = TRUE])
    /\ UNCHANGED <<sharedApprovalFlowId, lastEvent, modalVars, srpVars>>

\* The promise of #waitForTransactionHash resolved: null is turned into an
\* error that the second catch block rethrows, a hash is returned.
WaitResolved(c) ==
    /\ hooks[c].pc = "waiting"
    /\ hooks[c].waitResult # "unset"
    /\ IF hooks[c].waitResult = "null"
       THEN LET r == CatchAndRethrow(hooks[c], sharedApprovalFlowId,
                        "Transaction does not have a transaction hash, there was a problem")
            IN  /\ SetHook(c, r.hook)
                /\ sharedApprovalFlowId' = r.shared
       ELSE /\ SetHook(c, [hooks[c] EXCEPT !.pc = "done",
                              !.result = IF hooks[c].request.kind = "submit"
                                         THEN HashResult(hooks[c].waitResult)
                                         ELSE BatchResult(hooks[c].response)])
            /\ UNCHANGED sharedApprovalFlowId
    /\ UNCHANGED <<lastEvent, modalVars, srpVars>>

\* The promise of ApprovalController:addRequest settled (the status page was
\* approved or rejected): onApproveOrRejectWrapper runs either way.
ApprovalSettled(c) ==
    /\ hooks[c].requestPending
    /\ LET r == OnApproveOrReject(
                  Call([hooks[c] EXCEPT !.requestPending = FALSE],
                       "addRequest", "settled", hooks[c].approvalFlowId),
                  sharedApprovalFlowId)
       IN  /\ SetHook(c, r.hook)
           /\ sharedApprovalFlowId' = r.shared
    /\ UNCHANGED <<lastEvent, modalVars, srpVars>>

\* SmartTransactionsController:smartTransaction is published: every
\* subscriber of every instance runs.
Publish(events) ==
    /\ \E e \in events :
         /\ lastEvent' = e
         /\ hooks' = [c \in Calls |-> DeliverEvent(hooks[c], c, e)]
    /\ UNCHANGED <<sharedApprovalFlowId, modalVars, srpVars>>

\* No flow is open, no instance was created, nothing was published.
HookInit ==
    /\ sharedApprovalFlowId = NoFlow
    /\ hooks = [c \in Calls |-> NoHook]
    /\ lastEvent = NoEvent

ModalIdle ==
    /\ gasFeeTokens = <<>>
    /\ selectedGasFeeToken = Undefined
    /\ listItems = <<>>

SrpIdle ==
    /\ secretRecoveryPhrase = ""
    /\ imports = <<>>
    /\ onActionCompleteCalls = <<>>
    /\ clearClipboardCalls = 0

Init == HookInit /\ ModalIdle /\ SrpIdle

\* What one instance can do next, whatever the inputs.
Continue(c, responses) ==
    \/ AcceptExisting(c)
    \/ ClearShared(c)
    \/ CallStartFlow(c)
    \/ StartFlowDone(c)
    \/ AfterStartFlow(c)
    \/ GetFeesResolved(c)
    \/ GetFeesRejected(c)
    \/ SignResolved(c)
    \/ SignRejected(c)
    \/ RelayResolved(c, responses)
    \/ RelayRejected(c)
    \/ AfterApproval(c)
    \/ WaitResolved(c)
    \/ ApprovalSettled(c)

\* Several instances in flight at once over the shared static flow id.
Next ==
    \/ \E c \in Calls : Submit(c, ConcurrentSubmitRequests)
    \/ \E c \in Calls : SubmitBatch(c, ConcurrentBatchRequests)
    \/ \E c \in Calls : Continue(c, ConcurrentResponses)
    \/ Publish(ConcurrentEvents)

Spec == Init /\ [][Next]_vars

\* One instance alone, over every request, relay response and event.
NextSolo ==
    \/ Submit(1, SubmitRequests)
    \/ SubmitBatch(1, BatchRequests)
    \/ Continue(1, AllResponses)
    \/ Publish(Events)

\* The static flow id may still hold the flow of an earlier instance: submit()
\* clears it only on failure or once the status page was closed.
InitSolo ==
    /\ sharedApprovalFlowId \in {NoFlow, EarlierFlow}
    /\ hooks = [c \in Calls |-> NoHook]
    /\ lastEvent = NoEvent
    /\ ModalIdle
    /\ SrpIdle

SpecSolo == InitSolo /\ [][NextSolo]_vars

\* ------------------------------------------------------------------------
\* GasFeeTokenModal
\* ------------------------------------------------------------------------
\* Bounds: token contracts that may offer to pay the gas fee, and how many of
\* them one confirmation lists.
NumTokenContracts == 2

MaxGasFeeTokens == 2

\* A hex address is a contract and a letter case: '0xabc' and '0xABC' are
\* [token |-> 1, upper |-> FALSE] and [token |-> 1, upper |-> TRUE].
\* '0x0'.padEnd(42, '0'): no hex letter in it, so it has one spelling.
NATIVE_TOKEN_ADDRESS == [token |-> 0, upper |-> FALSE]

TokenAddresses == [token : 1..NumTokenContracts, upper : BOOLEAN]

\* String.prototype.toLowerCase on an address.
ToLowerCase(a) == [a EXCEPT !.upper = FALSE]

\* The gasFeeTokens of a confirmation: one entry per token contract.
GasFeeTokenLists ==
    { l \in UNION { [1..n -> TokenAddresses] : n \in 0..MaxGasFeeTokens } :
        \A i, j \in 1..Len(l) : i # j => l[i].token # l[j].token }

SelectedGasFeeTokens == {Undefined, NATIVE_TOKEN_ADDRESS} \cup TokenAddresses

\* gas-fee-token-modal.tsx: gasFeeTokenAddresses
GasFeeTokenAddresses(tokens) == <<NATIVE_TOKEN_ADDRESS>> \o tokens

IsSelectedCaseSensitive(selected, tokenAddress) ==
    \/ selected # Undefined /\ selected = tokenAddress
    \/ selected = Undefined /\ tokenAddress = NATIVE_TOKEN_ADDRESS

\* gas-fee-token-modal.tsx: the isSelected prop of a list item.
IsSelected(selected, tokenAddress) ==
    \/ selected # Undefined /\ ToLowerCase(selected) = ToLowerCase(tokenAddress)
    \/ selected = Undefined /\ tokenAddress = NATIVE_TOKEN_ADDRESS

\* The list the modal renders for a confirmation.
RenderListItems(tokens, selected) ==
    LET addresses == GasFeeTokenAddresses(tokens)
    IN  [i \in 1..Len(addresses) |->
            [tokenAddress |-> addresses[i],
             isSelected |-> IsSelected(selected, addresses[i])]]

\* The modal is rendered for the current confirmation.
OpenModal ==
    /\ listItems = <<>>
    /\ listItems' = RenderListItems(gasFeeTokens, selectedGasFeeToken)
    /\ UNCHANGED <<gasFeeTokens, selectedGasFeeToken, hookVars, srpVars>>

\* The confirmation changes (useConfirmContext); an open modal renders again.
ConfirmationChanged ==
    /\ \E tokens \in GasFeeTokenLists, selected \in SelectedGasFeeTokens :
         /\ gasFeeTokens' = tokens
         /\ selectedGasFeeToken' = selected
         /\ listItems' = IF listItems = <<>> THEN <<>>
                         ELSE RenderListItems(tokens, selected)
    /\ UNCHANGED <<hookVars, srpVars>>

\* handleTokenClick / the header's close button: onClose.
CloseModal ==
    /\ listItems # <<>>
    /\ listItems' = <<>>
    /\ UNCHANGED <<gasFeeTokens, selectedGasFeeToken, hookVars, srpVars>>

NextModal == OpenModal \/ ConfirmationChanged \/ CloseModal

SpecModal == Init /\ [][NextModal]_vars

\* ------------------------------------------------------------------------
\* ImportSrp
\* ------------------------------------------------------------------------
\* Bound: how many times "Import wallet" is clicked.
MaxImports == 3

\* What can be pasted into the form: nothing, half a phrase, a phrase with a
\* misspelled word, and two valid phrases.
PastedPhrases == {"", "partial", "misspelled", "valid", "valid other"}

\* The phrases that enable the "Import wallet" button.
IsValidSrp(phrase) == phrase \in {"valid", "valid other"}

\* pasteSrpIntoFirstInput: the form takes the pasted words.
PasteSrp ==
    /\ \E phrase \in PastedPhrases : secretRecoveryPhrase' = phrase
    /\ UNCHANGED <<imports, onActionCompleteCalls, clearClipboardCalls, hookVars, modalVars>>

\* Clicking "Import wallet": dispatches importMnemonicToVault(phrase).
ClickImportWallet ==
    /\ IsValidSrp(secretRecoveryPhrase)
    /\ Len(imports) < MaxImports
    /\ \A i \in 1..Len(imports) : imports[i].outcome # "pending"
    /\ imports' = Append(imports, [phrase |-> secretRecoveryPhrase, outcome |-> "pending"])
    /\ UNCHANGED <<secretRecoveryPhrase, onActionCompleteCalls, clearClipboardCalls,
                   hookVars, modalVars>>

OnImportRejectedCompletes(calls) == Append(calls, FALSE)

\* What the click handler does to onActionComplete when the import rejects.
OnImportRejected(calls) == calls

\* What the click handler does to onActionComplete when the import resolves.
OnImportResolved(calls) == Append(calls, TRUE)

\* importMnemonicToVault resolved.
ImportResolved ==
    /\ imports # <<>>
    /\ imports[Len(imports)].outcome = "pending"
    /\ imports' = [imports EXCEPT ![Len(imports)].outcome = "resolved"]
    /\ onActionCompleteCalls' = OnImportResolved(onActionCompleteCalls)
    /\ clearClipboardCalls' = clearClipboardCalls + 1
    /\ UNCHANGED <<secretRecoveryPhrase, hookVars, modalVars>>

\* importMnemonicToVault rejected: the error is logged.
ImportRejected ==
    /\ imports # <<>>
    /\ imports[Len(imports)].outcome = "pending"
    /\ imports' = [imports EXCEPT ![Len(imports)].outcome = "rejected"]
    /\ onActionCompleteCalls' = OnImportRejected(onActionCompleteCalls)
    /\ UNCHANGED <<secretRecoveryPhrase, clearClipboardCalls, hookVars, modalVars>>

NextSrp == PasteSrp \/ ClickImportWallet \/ ImportResolved \/ ImportRejected

SpecSrp == Init /\ [][NextSrp]_vars

\* ------------------------------------------------------------------------
\* Properties
\* ------------------------------------------------------------------------
\* The first position of a call in an instance's log, 0 when it was not made.
Pos(h, op, phase) ==
    IF LoggedOp(h, op, phase)
    THEN CHOOSE i \in 1..Len(h.log) :
            /\ h.log[i][1] = op /\ h.log[i][2] = phase
            /\ \A j \in 1..(i - 1) : ~(h.log[j][1] = op /\ h.log[j][2] = phase)
    ELSE 0

\* a happened, and before b.
Before(h, opA, phaseA, opB, phaseB) ==
    /\ Pos(h, opA, phaseA) # 0
    /\ Pos(h, opA, phaseA) < Pos(h, opB, phaseB)

FeesFailed(h) == LoggedOp(h, "getFees", "fail")

SigningFailed(h) == LoggedOp(h, "approveTransactionsWithSameNonce", "fail")

RelayFailed(h) == LoggedOp(h, "submitSignedTransactions", "fail")

UuidMissing(h) == Logged(h, "submitSignedTransactions", "ok", ForeignUuid)

NoMinedHash(h) == h.pc = "done" /\ h.waitResult = "null" /\ h.result.kind # "hash"

NoHashError == "Transaction does not have a transaction hash, there was a problem"

\* C1 as stated: whichever step of submit() fails (fee retrieval, signing,
\* relay submission, a response without uuid, a terminal status without mined
\* hash), submit() resolves with {transactionHash: undefined}.
C1_FallbackOnEveryFailure ==
    \A c \in Calls :
        LET h == hooks[c]
        IN  (/\ h.request.kind = "submit"
             /\ h.pc = "done"
             /\ \/ FeesFailed(h) \/ SigningFailed(h) \/ RelayFailed(h)
                \/ UuidMissing(h) \/ NoMinedHash(h))
            => h.result = RegularResult

\* C1 amended: submit() falls back to regular submission (resolves with
\* {transactionHash: undefined}) when fee retrieval fails; when signing or
\* relay submission fails, the response has no uuid or the terminal status has
\* no mined hash, submit() rejects with the error.
C1_FallbackOnFeeFailureOnly ==
    \A c \in Calls :
        LET h == hooks[c]
        IN  (h.request.kind = "submit" /\ h.pc = "done") =>
              /\ FeesFailed(h) => h.result = RegularResult
              /\ SigningFailed(h) => h.result = Rejected("signError")
              /\ RelayFailed(h) => h.result = Rejected("relayError")
              /\ UuidMissing(h) => h.result = Rejected("No smart transaction UUID")
              /\ NoMinedHash(h) => h.result = Rejected(NoHashError)

\* A submit() that had started its approval flow ended because fee retrieval
\* failed.
C1_Witness ==
    \E c \in Calls :
        /\ hooks[c].request.kind = "submit"
        /\ hooks[c].pc = "done"
        /\ FeesFailed(hooks[c])
        /\ hooks[c].approvalFlowId # NoFlow

\* The submit() calls C2 is about.
SigningSubmit(h) ==
    /\ h.request.kind = "submit"
    /\ h.request.isSmartTransaction
    /\ h.request.type \in {"undefined", "simpleSend"}
    /\ ~h.request.legacy
    /\ ~h.request.signedTransactionInHex
    /\ h.request.transactions = "none"

\* The part of C2 that holds: startFlow, getFees, signing and the relay call
\* each start after the one before completed; addRequest is issued after the
\* relay returned a uuid, and the subscription after addRequest was issued.
OrderedCalls(h, c) ==
    /\ LoggedOp(h, "getFees", "call") =>
          Before(h, "startFlow", "ok", "getFees", "call")
    /\ LoggedOp(h, "approveTransactionsWithSameNonce", "call") =>
          Before(h, "getFees", "ok", "approveTransactionsWithSameNonce", "call")
    /\ LoggedOp(h, "submitSignedTransactions", "call") =>
          /\ Before(h, "approveTransactionsWithSameNonce", "ok",
                    "submitSignedTransactions", "call")
          /\ Before(h, "getFees", "call", "submitSignedTransactions", "call")
    /\ LoggedOp(h, "addRequest", "call") =>
          /\ Before(h, "submitSignedTransactions", "ok", "addRequest", "call")
          /\ Logged(h, "submitSignedTransactions", "ok", UuidOf(c))
    /\ LoggedOp(h, "subscribe", "call") =>
          Before(h, "addRequest", "call", "subscribe", "call")

\* C2 as stated: the six calls are made in order, each started only after the
\* one before completed successfully -- the subscription to the status events
\* included, which would start only once the addRequest promise has settled.
C2_EachAfterPreviousCompleted ==
    \A c \in Calls :
        SigningSubmit(hooks[c]) =>
            /\ OrderedCalls(hooks[c], c)
            /\ LoggedOp(hooks[c], "subscribe", "call") =>
                  Before(hooks[c], "addRequest", "settled", "subscribe", "call")

\* C2 amended: startFlow, getFees, signing and relay submission each start only
\* after the previous one completed successfully; addRequest is issued only
\* after the relay returned a uuid; the subscription to the status events
\* follows the issuing of addRequest without waiting for it to settle.  No
\* relay submission precedes fee retrieval.
C2_OrderedCalls ==
    \A c \in Calls :
        SigningSubmit(hooks[c]) =>
            /\ OrderedCalls(hooks[c], c)
            /\ (hooks[c].requestPending /\ ~LoggedOp(hooks[c], "addRequest", "settled"))
                  => LoggedOp(hooks[c], "subscribe", "call")

\* Such a submit() made all six calls and returned a mined hash while its
\* approval request was still open.
C2_Witness ==
    \E c \in Calls :
        /\ SigningSubmit(hooks[c])
        /\ hooks[c].pc = "done"
        /\ hooks[c].result.kind = "hash"
        /\ hooks[c].requestPending
        /\ LoggedOp(hooks[c], "approveTransactionsWithSameNonce", "ok")
        /\ LoggedOp(hooks[c], "subscribe", "call")

\* The requests C5 is about, read off the request alone.
NotEligible(req) ==
    /\ req.kind = "submit"
    /\ \/ ~req.isSmartTransaction
       \/ req.type \in {"swapAndSend", "swapApproval", "bridgeApproval"}
       \/ req.legacy

\* C5: submit() on a request that is not a smart transaction, or is of type
\* swapAndSend, swapApproval or bridgeApproval, or is a legacy transaction,
\* returns {transactionHash: undefined} having called nothing, subscribed to
\* nothing and left the shared approval flow id as it was.
C5_IneligibleTouchesNothing ==
    /\ [](\A c \in Calls :
            NotEligible(hooks[c].request) =>
                /\ hooks[c].pc = "done"
                /\ hooks[c].result = RegularResult
                /\ hooks[c].log = <<>>
                /\ ~hooks[c].statusListener
                /\ ~hooks[c].waitSubscribed
                /\ ~hooks[c].requestPending)
    /\ [][\A c \in Calls :
            (NotEligible(hooks'[c].request) /\ hooks'[c] # hooks[c])
                => sharedApprovalFlowId' = sharedApprovalFlowId]_vars

\* A legacy smart transaction was handed to submit() while the approval flow
\* of an earlier instance was open, and the shared flow id is still that one.
C5_Witness ==
    \E c \in Calls :
        /\ hooks[c].request.kind = "submit"
        /\ hooks[c].request.isSmartTransaction
        /\ hooks[c].request.legacy
        /\ hooks[c].pc = "done"
        /\ sharedApprovalFlowId = EarlierFlow

\* C6: when getFees rejects, submit() resolves with {transactionHash:
\* undefined}, the flow this call started (if any) was ended by endFlow with
\* this call's flow id, and neither the signer nor the relay was called.
C6_FeeFailureFallsBack ==
    \A c \in Calls :
        LET h == hooks[c]
        IN  FeesFailed(h) =>
              /\ h.pc = "done"
              /\ h.result = RegularResult
              /\ h.approvalFlowId # NoFlow => Logged(h, "endFlow", "call", h.approvalFlowId)
              /\ ~LoggedOp(h, "approveTransactionsWithSameNonce", "call")
              /\ ~LoggedOp(h, "submitSignedTransactions", "call")

\* getFees rejected for a call that had started a flow after ending the flow
\* of another instance.
C6_Witness ==
    \E c \in Calls :
        /\ FeesFailed(hooks[c])
        /\ hooks[c].approvalFlowId # NoFlow
        /\ hooks[c].existingFlowId # NoFlow

\* The error a rejected call must carry, read off what went wrong.
OriginalError(h) ==
    IF SigningFailed(h) THEN "signError"
    ELSE IF RelayFailed(h) THEN "relayError"
    ELSE IF UuidMissing(h) THEN "No smart transaction UUID"
    ELSE IF h.waitResult = "null" THEN NoHashError
    ELSE "startFlowError"

\* C7: a submit() or submitBatch() that rejected carries the original error,
\* and if it had started an approval flow, endFlow was called with its flow id
\* and the shared approval flow id is not its flow id.
C7_RejectionEndsFlow ==
    \A c \in Calls :
        LET h == hooks[c]
        IN  h.result.kind = "rejected" =>
              /\ h.pc = "done"
              /\ h.result.error = OriginalError(h)
              /\ h.approvalFlowId # NoFlow =>
                    /\ Logged(h, "endFlow", "call", h.approvalFlowId)
                    /\ sharedApprovalFlowId # h.approvalFlowId

\* A submitBatch() that had started a flow rejected for want of a mined hash,
\* and a submit() that had started one rejected because signing failed.
C7_Witness ==
    \E c, d \in Calls :
        /\ hooks[c].request.kind = "submitBatch"
        /\ hooks[c].result = Rejected(NoHashError)
        /\ hooks[c].approvalFlowId # NoFlow
        /\ hooks[d].request.kind = "submit"
        /\ hooks[d].result = Rejected("signError")
        /\ hooks[d].approvalFlowId # NoFlow

\* What the wait must resolve to on a deciding event.
Outcome(e) == IF e.minedHash \in {"0xh1", "0xh2"} THEN e.minedHash ELSE "null"

Deciding(e, c) == e.uuid = UuidOf(c) /\ e.status \in {"success", "cancelled"}

\* C8: while an instance waits for the transaction hash, the wait is resolved
\* by the first event with its uuid and a status other than PENDING, and by no
\* other event; it resolves to that event's mined hash, which submit() returns,
\* or to none, on which submit() rejects; later events change nothing.
C8_FirstDecidingEventDecides ==
    /\ [][\A c \in Calls :
            /\ (hooks[c].waitResult = "unset" /\ hooks'[c].waitResult # "unset")
                  => /\ hooks[c].waitSubscribed
                     /\ Deciding(lastEvent', c)
                     /\ hooks'[c].waitResult = Outcome(lastEvent')
            /\ (hooks[c].waitSubscribed /\ hooks[c].waitResult = "unset"
                  /\ lastEvent' # lastEvent /\ Deciding(lastEvent', c))
                  => hooks'[c].waitResult = Outcome(lastEvent')
            /\ hooks[c].waitResult # "unset"
                  => hooks'[c].waitResult = hooks[c].waitResult]_vars
    /\ [](\A c \in Calls :
            (hooks[c].pc = "done" /\ hooks[c].waitSubscribed) =>
                /\ hooks[c].waitResult # "unset"
                /\ hooks[c].request.kind = "submit" =>
                      hooks[c].result = IF hooks[c].waitResult = "null"
                                        THEN Rejected(NoHashError)
                                        ELSE HashResult(hooks[c].waitResult))

\* submit() returned the mined hash of the first deciding event although a
\* later event for the same uuid carried another hash.
C8_Witness ==
    \E c \in Calls :
        /\ hooks[c].pc = "done"
        /\ hooks[c].result = HashResult("0xh2")
        /\ lastEvent = [uuid |-> UuidOf(c), status |-> "success", minedHash |-> "0xh1"]

\* C9: submit() returns the relay's txHash without waiting when
\* extensionReturnTxHashAsap is on and the response has a txHash; otherwise it
\* returns a hash only after a deciding status event arrived; submitBatch()
\* always waits, whatever the flag.
C9_ReturnTxHashAsap ==
    \A c \in Calls :
        LET h == hooks[c]
        IN  /\ (h.request.kind = "submit" /\ h.result.kind = "hash") =>
                 IF h.request.extensionReturnTxHashAsap /\ h.response.txHash = "0xtx"
                 THEN h.result.transactionHash = "0xtx" /\ ~h.waitSubscribed
                 ELSE /\ h.waitSubscribed
                      /\ h.waitResult \in {"0xh1", "0xh2"}
                      /\ h.result.transactionHash = h.waitResult
            /\ (h.request.kind = "submit" /\ h.request.extensionReturnTxHashAsap
                    /\ h.response.txHash = "0xtx") => ~h.waitSubscribed
            /\ (h.request.kind = "submitBatch" /\ h.result.kind = "batch") =>
                 h.waitSubscribed /\ h.waitResult \in {"0xh1", "0xh2"}

\* submit() returned the relay's txHash before any event was published.
C9_Witness ==
    \E c \in Calls :
        /\ hooks[c].request.kind = "submit"
        /\ hooks[c].request.extensionReturnTxHashAsap
        /\ hooks[c].result = HashResult("0xtx")
        /\ lastEvent = NoEvent

SelectedItems == { i \in 1..Len(listItems) : listItems[i].isSelected }

Outcomes(outcome) == { i \in 1..Len(imports) : imports[i].outcome = outcome }

====
